---- MODULE Spec2Model ----
(***************************************************************************)
(* A model of markov-namegen: Model (src/src/model.ts), Generator and      *)
(* NameGenerator (src/src/generator.ts).                                   *)
(*                                                                         *)
(* Strings are sequences of one-character strings; a single character, or  *)
(* the empty string that charAt returns past the end, is a TLA+ string.    *)
(* A Map<string, T> is a function whose DOMAIN is the set of its keys.     *)
(* The prior is a real in the source; here a number is kept as an integer  *)
(* count of 1/PriorDen units, so prior 0.5 is 1 when PriorDen is 2 and an  *)
(* observation count c is c * PriorDen.                                    *)
(***************************************************************************)
EXTENDS Integers, Sequences, FiniteSets

\* ------------------------------------------------------------- bounds
\* letters in a training word
MaxWordLen == 1
\* letters in a word the generator returns
MaxNameLen == 1
\* words handed to a Generator
MaxData == 2
\* words a Model is trained on, over its construction and its retrains
MaxTrained == 2
\* the highest order
MaxOrder == 2
\* weights are counted in units of 1/PriorDen
PriorDen == 2
\* the names asked of generateNames
MaxN == 2
\* maxTimePerName, in clock ticks
MaxTimePerName == 2
\* the clock's value when generateNames starts
MaxStart == 1

Letters == {"a", "b"}
Boundary == "#"

VARIABLES
    \* --- a Model instance (model.ts)
    mstate,        \* "new" | "ready" | "thrown"
    order,         \* Model.order
    prior,         \* Model.prior, in 1/PriorDen units
    alphabet,      \* Model._alphabet
    observations,  \* Model._observations
    chains,        \* Model._chains
    trained,       \* history: the non-empty batches train() has consumed, each in the order consumed
    lastOp,        \* "none" | "construct" | "retrain" | "generate"
    gen,           \* the last Model.generate call: context, draw, chain sum, result
    \* --- a Generator construction (generator.ts 45-79)
    gstate,        \* "new" | "built" | "thrown"
    ginput,        \* the constructor's arguments
    domain,        \* the alphabet the constructor derived
    models,        \* the local array `models`
    dataAfter,     \* the caller's data array after the constructor ran
    \* --- NameGenerator (generator.ts 91-163 and 174-216)
    pc,            \* "idle" | "loop" | "done"
    call,          \* the arguments of the running generateNames call
    names,         \* generateNames' local array
    startTime, currentTime,
    gn             \* the last stand-alone generateName call

modelVars == <<mstate, order, prior, alphabet, observations, chains, trained, lastOp, gen>>
genVars == <<gstate, ginput, domain, models, dataAfter>>
nameVars == <<pc, call, names, startTime, currentTime, gn>>
vars == <<modelVars, genVars, nameVars>>

\* ------------------------------------------------------ JavaScript strings
RECURSIVE SeqsUpTo(_, _)
SeqsUpTo(S, n) ==
    IF n = 0 THEN {<<>>}
    ELSE LET shorter == SeqsUpTo(S, n - 1)
         IN shorter \cup {Append(s, x) : s \in {t \in shorter : Len(t) = n - 1}, x \in S}

Min(a, b) == IF a < b THEN a ELSE b
Max(a, b) == IF a > b THEN a ELSE b

\* "#".repeat(count): a RangeError for a negative count
RepeatThrows(count) == count < 0
Repeat(ch, count) == [i \in 1..count |-> ch]

\* d.substring(start, end): both clamped to [0, d.length], swapped when start > end
Substring(d, start, end) ==
    LET s == Max(0, Min(start, Len(d)))
        e == Max(0, Min(end, Len(d)))
    IN SubSeq(d, Min(s, e) + 1, Max(s, e))

\* d.charAt(i): the empty string when i is out of range
CharAt(d, i) == IF i >= 0 /\ i < Len(d) THEN d[i + 1] ELSE ""

\* ----------------------------------------------------------------- Map
EmptyMap == <<>>
MapHas(m, k) == k \in DOMAIN m
MapSet(m, k, v) == [x \in (DOMAIN m) \cup {k} |-> IF x = k THEN v ELSE m[x]]

\* assert(cond) of ./assert: a failed assertion throws
assertFails(cond) == ~cond

\* ------------------------------------------------------------- model.ts
Words == SeqsUpTo(Letters, MaxWordLen)
Null == [kind |-> "null", value |-> ""]
Symbol(ch) == [kind |-> "symbol", value |-> ch]
AssertionError == [kind |-> "error", value |-> "AssertionError"]

\* line 90: d = "#".repeat(order) + d + "#"
Decorate(w, ord) == Repeat(Boundary, ord) \o w \o <<Boundary>>

\* lines 91-100: the window loop over one decorated word, from index i on
RECURSIVE TrainWord(_, _, _, _)
TrainWord(obs, d, ord, i) ==
    IF ~(i <= Len(d) - ord) THEN obs
    ELSE LET key == Substring(d, i, i + ord)
             value == IF MapHas(obs, key) THEN obs[key] ELSE <<>>
         IN TrainWord(MapSet(obs, key, Append(value, CharAt(d, i + ord))), d, ord, i + 1)

\* lines 87-102: train pops the words off the end of data until it is empty.
\* The result: the observation table, the emptied array, the words consumed in
\* the order consumed, and whether "#".repeat threw.
RECURSIVE Train(_, _, _)
Train(obs, data, ord) ==
    IF Len(data) = 0
    THEN [observations |-> obs, data |-> data, consumed |-> <<>>, thrown |-> FALSE]
    ELSE IF RepeatThrows(ord)
    THEN [observations |-> obs, data |-> SubSeq(data, 1, Len(data) - 1),
          consumed |-> <<>>, thrown |-> TRUE]
    ELSE LET w == data[Len(data)]
             rest == Train(TrainWord(obs, Decorate(w, ord), ord, 0),
                           SubSeq(data, 1, Len(data) - 1), ord)
         IN [rest EXCEPT !.consumed = <<w>> \o @]

\* lines 123-136
RECURSIVE CountMatches(_, _)
CountMatches(arr, v) ==
    IF arr = <<>> THEN 0
    ELSE (IF Head(arr) = v THEN 1 ELSE 0) + CountMatches(Tail(arr), v)

\* lines 111-119: the inner loop pushes one weight per alphabet symbol onto value
ChainFor(value, arr, alph, pri) ==
    value \o [i \in 1..Len(alph) |-> pri + PriorDen * CountMatches(arr, alph[i])]

\* A buildChains that forgets line 108 and pushes onto the vectors it already has.
BuildChainsAppending(old, obs, alph, pri) ==
    [c \in {k \in DOMAIN obs : Len(alph) > 0} |->
        ChainFor(IF MapHas(old, c) THEN old[c] ELSE <<>>, obs[c], alph, pri)]

\* lines 107-121: old is this._chains before the call, replaced at line 108. A
\* context gets an entry when the inner loop runs at least once.
BuildChains(old, obs, alph, pri) ==
    LET fresh == EmptyMap
    IN [c \in {k \in DOMAIN obs : Len(alph) > 0} |->
          ChainFor(IF MapHas(fresh, c) THEN fresh[c] ELSE <<>>, obs[c], alph, pri)]

\* lines 139-145
RECURSIVE Accumulate(_, _)
Accumulate(chain, n) == IF n = 0 THEN 0 ELSE Accumulate(chain, n - 1) + chain[n]
Totals(chain) == [i \in 1..Len(chain) |-> Accumulate(chain, i)]

\* line 147: rand = Math.random() * accumulator lies in [0, accumulator), and is 0
\* when accumulator is 0. The totals are whole numbers of units, so rand < totals[i]
\* depends on the whole part of rand alone: u stands for every rand in [u, u + 1).
Draws(chain) == 0..Max(Accumulate(chain, Len(chain)) - 1, 0)

\* lines 138-155: i runs to totals.length inclusive; totals[totals.length] is
\* undefined and rand < undefined is false
SelectIndex(chain, u) ==
    LET totals == Totals(chain)
        hit == {i \in 0..Len(totals) : i < Len(totals) /\ u < totals[i + 1]}
    IN IF hit = {} THEN 0 ELSE CHOOSE i \in hit : \A j \in hit : i <= j

\* lines 63-71
Generate(chs, alph, context, u) ==
    IF ~MapHas(chs, context) THEN Null
    ELSE IF assertFails(Len(chs[context]) > 0) THEN AssertionError
    ELSE Symbol(alph[SelectIndex(chs[context], u) + 1])

NoGen == [context |-> <<>>, u |-> 0, found |-> FALSE, ret |-> Null]

ModelOrders == -1..MaxOrder
Priors == -1..(PriorDen + 1)
Alphabets == {<<>>, <<Boundary, "a">>, <<Boundary, "a", "b">>}
ModelData == SeqsUpTo(Words, MaxTrained)

\* lines 37-57, the form that is given training data (Array.isArray holds): what
\* the constructor leaves behind, and whether it threw
ModelCtor(o, p, a, data) ==
    LET none == [thrown |-> TRUE, order |-> o, prior |-> p, alphabet |-> a,
                 observations |-> EmptyMap, chains |-> EmptyMap,
                 consumed |-> <<>>, data |-> data]
    IN IF assertFails(p >= 0 /\ p <= PriorDen) THEN none
       ELSE IF assertFails(Len(a) > 0 /\ Len(data) > 0) THEN none
       ELSE LET t == Train(EmptyMap, data, o)
            IN IF t.thrown THEN [none EXCEPT !.data = t.data]
               ELSE [thrown |-> FALSE, order |-> o, prior |-> p, alphabet |-> a,
                     observations |-> t.observations,
                     chains |-> BuildChains(EmptyMap, t.observations, a, p),
                     consumed |-> t.consumed, data |-> t.data]

NewModel(Datas) ==
    /\ mstate = "new" /\ gstate = "new"
    /\ \E o \in ModelOrders, p \in Priors, a \in Alphabets, data \in Datas :
       LET m == ModelCtor(o, p, a, data)
       IN /\ mstate' = IF m.thrown THEN "thrown" ELSE "ready"
          /\ order' = o /\ prior' = p /\ alphabet' = a
          /\ observations' = m.observations
          /\ chains' = m.chains
          /\ trained' = IF m.consumed = <<>> THEN <<>> ELSE <<m.consumed>>
    /\ lastOp' = "construct" /\ gen' = NoGen
    /\ UNCHANGED <<genVars, nameVars>>

\* A retrain that starts from an empty observation table.
RetrainedReplacing(obs, data, ord) == Train(EmptyMap, data, ord)

\* line 79: this.train(data), into the table the model already has
Retrained(obs, data, ord) == Train(obs, data, ord)

RECURSIVE Flatten(_)
Flatten(batches) == IF batches = <<>> THEN <<>> ELSE Head(batches) \o Flatten(Tail(batches))
AllTrained == Flatten(trained)

\* lines 77-81
Retrain ==
    /\ mstate = "ready"
    /\ \E data \in {d \in ModelData : Len(AllTrained) + Len(d) <= MaxTrained} :
       LET t == Retrained(observations, data, order)
       IN /\ observations' = t.observations
          /\ trained' = IF t.consumed = <<>> THEN trained ELSE Append(trained, t.consumed)
          /\ chains' = BuildChains(chains, t.observations, alphabet, prior)
    /\ lastOp' = "retrain" /\ gen' = NoGen
    /\ UNCHANGED <<mstate, order, prior, alphabet, genVars, nameVars>>

\* the strings of the model's order: what a caller hands generate as context
Contexts(ord) == {c \in SeqsUpTo(Letters \cup {Boundary}, ord) : Len(c) = ord}

\* lines 63-71, on a context of the model's order
ModelGenerate ==
    /\ mstate = "ready"
    /\ \E context \in Contexts(order) :
       \E u \in (IF MapHas(chains, context) THEN Draws(chains[context]) ELSE {0}) :
       gen' = [context |-> context, u |-> u, found |-> MapHas(chains, context),
               ret |-> Generate(chains, alphabet, context, u)]
    /\ lastOp' = "generate"
    /\ UNCHANGED <<mstate, order, prior, alphabet, observations, chains, trained,
                   genVars, nameVars>>


\* --------------------------------------------------- generator.ts, Generator
Digits == <<"0", "1", "2", "3", "4", "5", "6", "7", "8", "9">>
Chars == {Boundary} \cup {Digits[i] : i \in 1..10} \cup Letters

\* The UTF-16 code unit of a character: what a < b compares at lines 60 and 63
CodeUnit(ch) ==
    CASE ch = "#" -> 35
      [] ch = "a" -> 97
      [] ch = "b" -> 98
      [] OTHER -> 47 + (CHOOSE i \in 1..10 : Digits[i] = ch)

\* String(n) for an array index
RECURSIVE IndexKey(_)
IndexKey(n) ==
    IF n < 10 THEN <<Digits[n + 1]>>
    ELSE IndexKey(n \div 10) \o <<Digits[(n % 10) + 1]>>

\* line 53: for (const word in data) enumerates the array's keys "0", "1", ...
ForInKeys(data) == [i \in 1..Len(data) |-> IndexKey(i - 1)]

\* lines 52-57: the set of the characters of everything the loop visits
CharsOf(strs) == UNION {{strs[i][j] : j \in 1..Len(strs[i])} : i \in 1..Len(strs)}

\* lines 59-67: ascending by the comparator
RECURSIVE SortChars(_)
SortChars(S) ==
    IF S = {} THEN <<>>
    ELSE LET m == CHOOSE x \in S : \A y \in S : CodeUnit(x) <= CodeUnit(y)
         IN <<m>> \o SortChars(S \ {m})

\* lines 52-68
Domain(data) == <<Boundary>> \o SortChars(CharsOf(ForInKeys(data)))

\* lines 72-74: the loop from index i on. new Model(data, order - i, prior, domain)
\* hands the Model the training data, its order, the prior and the alphabet, each
\* to the parameter of that name; every Model is handed the same array.
RECURSIVE BackoffModels(_, _, _, _, _, _)
BackoffModels(data, ord, p, dom, i, acc) ==
    IF ~(i <= ord) THEN [thrown |-> FALSE, models |-> acc, data |-> data]
    ELSE LET m == ModelCtor(ord - i, p, dom, data)
         IN IF m.thrown THEN [thrown |-> TRUE, models |-> acc, data |-> m.data]
            ELSE BackoffModels(m.data, ord, p, dom, i + 1, Append(acc, m))

\* lines 70-77
BuildModels(data, ord, p, dom, backoff) ==
    IF backoff THEN BackoffModels(data, ord, p, dom, 0, <<>>)
    ELSE LET m == ModelCtor(ord, p, dom, data)
         IN IF m.thrown THEN [thrown |-> TRUE, models |-> <<>>, data |-> m.data]
            ELSE [thrown |-> FALSE, models |-> <<m>>, data |-> m.data]

GenData == SeqsUpTo(Words, MaxData)

\* lines 45-79
NewGenerator ==
    /\ gstate = "new" /\ mstate = "new"
    /\ \E data \in GenData, ord \in ModelOrders, p \in Priors, backoff \in BOOLEAN :
       LET b == BuildModels(data, ord, p, Domain(data), backoff)
       IN /\ ginput' = [data |-> data, order |-> ord, prior |-> p, backoff |-> backoff]
          /\ domain' = Domain(data)
          /\ gstate' = IF b.thrown THEN "thrown" ELSE "built"
          /\ models' = b.models
          /\ dataAfter' = b.data
    /\ UNCHANGED <<modelVars, nameVars>>

\* ----------------------------------------------- generator.ts, NameGenerator
\* What Generator.generate() returns: order boundary symbols, then symbols that
\* are not the boundary, then the boundary that ended the word if one was drawn.
GeneratedWords ==
    {Repeat(Boundary, o) \o w \o t :
        o \in 0..MaxOrder, w \in SeqsUpTo(Letters, MaxNameLen), t \in {<<>>, <<Boundary>>}}

\* name.replace(/#/g, "")
RECURSIVE ReplaceAll(_)
ReplaceAll(name) ==
    IF name = <<>> THEN <<>>
    ELSE IF Head(name) = Boundary THEN ReplaceAll(Tail(name))
    ELSE <<Head(name)>> \o ReplaceAll(Tail(name))

\* name.replace("#", ""): a string pattern replaces its first occurrence only
RECURSIVE ReplaceFirst(_)
ReplaceFirst(name) ==
    IF name = <<>> THEN <<>>
    ELSE IF Head(name) = Boundary THEN Tail(name)
    ELSE <<Head(name)>> \o ReplaceFirst(Tail(name))

\* String.prototype.startsWith, endsWith, includes
StartsWith(name, s) == Len(s) <= Len(name) /\ SubSeq(name, 1, Len(s)) = s
EndsWith(name, s) == Len(s) <= Len(name) /\ SubSeq(name, Len(name) - Len(s) + 1, Len(name)) = s
Includes(name, s) == \E i \in 0..(Len(name) - Len(s)) : SubSeq(name, i + 1, i + Len(s)) = s

\* A length bound: a number, or Infinity
Infinity == [inf |-> TRUE, v |-> 0]
Finite(k) == [inf |-> FALSE, v |-> k]
AtMost(len, bound) == bound.inf \/ len <= bound.v

NullName == [null |-> TRUE, name |-> <<>>]
Name(w) == [null |-> FALSE, name |-> w]

\* line 125 and line 208: the acceptance test
Accepts(c, name) ==
    /\ Len(name) >= c.minLength /\ AtMost(Len(name), c.maxLength)
    /\ StartsWith(name, c.startsWith) /\ EndsWith(name, c.endsWith)
    /\ (Len(c.includes) = 0 \/ Includes(name, c.includes))
    /\ (Len(c.excludes) = 0 \/ ~Includes(name, c.excludes))

\* A generateName that asks the generator again when the first word is rejected.
GenerateNameRetrying(c, stream) ==
    IF Accepts(c, ReplaceAll(stream[1]))
    THEN [ret |-> Name(ReplaceAll(stream[1])), consumed |-> 1]
    ELSE IF Accepts(c, ReplaceAll(stream[2]))
    THEN [ret |-> Name(ReplaceAll(stream[2])), consumed |-> 2]
    ELSE [ret |-> NullName, consumed |-> 2]

\* lines 119-130. stream holds the words successive calls of generate() return;
\* consumed is how many of them the call took.
GenerateName(c, stream) ==
    LET name == ReplaceAll(stream[1])
    IN [ret |-> IF Accepts(c, name) THEN Name(name) ELSE NullName, consumed |-> 1]

\* lines 202-213, the second definition
GenerateName2(c, stream) ==
    LET name == ReplaceFirst(stream[1])
    IN [ret |-> IF Accepts(c, name) THEN Name(name) ELSE NullName, consumed |-> 1]

\* A loop condition that leaves the time budget out.
LoopConditionUnbudgeted(len, n, now, start, maxTimePerName) == len < n

\* line 150
LoopCondition(len, n, now, start, maxTimePerName) ==
    len < n /\ now < start + (maxTimePerName * n)

Patterns == {<<>>} \cup {<<x>> : x \in Letters}
MaxLengths == {Infinity} \cup {Finite(k) : k \in 0..MaxNameLen}
Constraints ==
    [minLength : 0..MaxNameLen, maxLength : MaxLengths, startsWith : Patterns,
     endsWith : Patterns, includes : Patterns, excludes : Patterns]
Open == [minLength |-> 0, maxLength |-> Infinity, startsWith |-> <<>>,
         endsWith |-> <<>>, includes |-> <<>>, excludes |-> <<>>]
\* The constraints generateNames is called with here: none; includes and excludes
\* the same; a prefix and a minimum length; a suffix and a maximum length.
LoopConstraints ==
    {Open,
     [Open EXCEPT !.includes = <<"a">>, !.excludes = <<"a">>],
     [Open EXCEPT !.startsWith = <<"a">>, !.minLength = 1],
     [Open EXCEPT !.endsWith = <<"b">>, !.maxLength = Finite(MaxNameLen)]}

ClockCap == MaxStart + 1 + (MaxN * MaxTimePerName)

NoCall == [def |-> 0, c |-> Open, word |-> <<>>, ret |-> NullName, consumed |-> 0]
Idle == [n |-> 0, c |-> Open, maxTimePerName |-> 0]

\* a call of generateName, lines 119-130
GenerateNameCall ==
    /\ pc = "idle" /\ gn = NoCall
    /\ \E c \in Constraints, w \in GeneratedWords, w2 \in SeqsUpTo(Letters, MaxNameLen) :
       LET r == GenerateName(c, <<w, w2>>)
       IN gn' = [def |-> 1, c |-> c, word |-> w, ret |-> r.ret, consumed |-> r.consumed]
    /\ UNCHANGED <<pc, call, names, startTime, currentTime, modelVars, genVars>>

\* a call of the second generateName, lines 202-213
GenerateName2Call ==
    /\ pc = "idle" /\ gn = NoCall
    /\ \E c \in Constraints, w \in GeneratedWords, w2 \in SeqsUpTo(Letters, MaxNameLen) :
       LET r == GenerateName2(c, <<w, w2>>)
       IN gn' = [def |-> 2, c |-> c, word |-> w, ret |-> r.ret, consumed |-> r.consumed]
    /\ UNCHANGED <<pc, call, names, startTime, currentTime, modelVars, genVars>>

\* lines 144-148: the two clock reads; the second is not before the first
GenerateNamesStart ==
    /\ pc = "idle" /\ gn = NoCall
    /\ pc' = "loop"
    /\ \E n \in 0..MaxN, c \in LoopConstraints, m \in 0..MaxTimePerName :
          call' = [n |-> n, c |-> c, maxTimePerName |-> m]
    /\ names' = <<>>
    /\ \E t0 \in 0..MaxStart, t1 \in 0..(MaxStart + 1) :
          t0 <= t1 /\ t1 <= t0 + 1 /\ startTime' = t0 /\ currentTime' = t1
    /\ UNCHANGED <<gn, modelVars, genVars>>

\* lines 150-157: one pass of the loop whose clock read returns t
LoopPass(w, t) ==
    /\ pc = "loop"
    /\ LoopCondition(Len(names), call.n, currentTime, startTime, call.maxTimePerName)
    /\ LET name == GenerateName(call.c, <<w, w>>).ret
       IN names' = IF ~name.null THEN Append(names, name.name) ELSE names
    /\ currentTime' = t
    /\ UNCHANGED <<pc, call, startTime, gn, modelVars, genVars>>

\* a pass during which the clock does not move
LoopPassSameTime == \E w \in GeneratedWords : LoopPass(w, currentTime)

\* a pass during which the clock moves on
LoopPassLater ==
    /\ currentTime < ClockCap
    /\ \E w \in GeneratedWords : LoopPass(w, currentTime + 1)

\* lines 150 and 159: the condition fails and names is returned
LoopExit ==
    /\ pc = "loop"
    /\ ~LoopCondition(Len(names), call.n, currentTime, startTime, call.maxTimePerName)
    /\ pc' = "done"
    /\ UNCHANGED <<call, names, startTime, currentTime, gn, modelVars, genVars>>

\* ------------------------------------------------------- specifications
\* Nothing constructed and nothing called yet
Init ==
    /\ mstate = "new" /\ order = 0 /\ prior = 0 /\ alphabet = <<>>
    /\ observations = EmptyMap /\ chains = EmptyMap /\ trained = <<>>
    /\ lastOp = "none" /\ gen = NoGen
    /\ gstate = "new" /\ domain = <<>> /\ models = <<>> /\ dataAfter = <<>>
    /\ ginput = [data |-> <<>>, order |-> 0, prior |-> 0, backoff |-> FALSE]
    /\ pc = "idle" /\ call = Idle /\ names = <<>>
    /\ startTime = 0 /\ currentTime = 0 /\ gn = NoCall

\* a Model that is constructed and retrained
TrainNext ==
    \/ NewModel(ModelData)
    \/ Retrain

SpecTrain == Init /\ [][TrainNext]_vars

\* a Model that is constructed, retrained and asked for symbols
ModelNext ==
    \/ NewModel(ModelData)
    \/ Retrain
    \/ ModelGenerate

SpecModel == Init /\ [][ModelNext]_vars

GenNext ==
    \/ NewGenerator
    \/ NewModel(GenData)

SpecGen == Init /\ [][GenNext]_vars

NameNext ==
    \/ GenerateNameCall
    \/ GenerateName2Call
    \/ GenerateNamesStart
    \/ LoopPassSameTime
    \/ LoopPassLater
    \/ LoopExit

SpecName == Init /\ [][NameNext]_vars

\* The loop's steps are taken while they can be, and the clock read between
\* attempts does not return the same value forever.
SpecNameFair ==
    /\ SpecName
    /\ WF_vars(LoopPassLater)
    /\ WF_vars(LoopExit)

\* ------------------------------------------------------------- claims
SumOf(chain) == Accumulate(chain, Len(chain))
SymbolsOf(alph) == {alph[i] : i \in 1..Len(alph)}
\* every word trained on so far is a word over the model's alphabet
DataOverAlphabet ==
    \A i \in 1..Len(AllTrained) : \A j \in 1..Len(AllTrained[i]) :
        AllTrained[i][j] \in SymbolsOf(alphabet)

\* C7: after construction and after any retrains, every chain has exactly one
\* weight per alphabet symbol, and the chain table has the observation table's
\* contexts.
C7_ChainLengths ==
    mstate = "ready" =>
        /\ \A c \in DOMAIN chains : Len(chains[c]) = Len(alphabet)
        /\ DOMAIN chains = DOMAIN observations

\* C7's case: a model retrained on a second non-empty batch
C7_Witness ==
    /\ mstate = "ready" /\ lastOp = "retrain" /\ Len(trained) >= 2
    /\ \E c \in DOMAIN chains : Len(observations[c]) >= 2

\* C8 (as claimed): in a model trained on data over its alphabet, a context
\* with at least one observation has a chain whose weights sum to more than 0.
C8_NoZeroSumChain ==
    (mstate = "ready" /\ DataOverAlphabet) =>
        \A c \in DOMAIN chains :
            Len(observations[c]) >= 1 => SumOf(chains[c]) > 0

\* C9 (as claimed): a generate that reaches the selection with a zero-sum chain
\* ends in an error; with a positive sum it returns the symbol at the smallest
\* index i with draw < totals[i], which is in range and has a positive weight.
C9_ZeroSumSurfaced ==
    (mstate = "ready" /\ lastOp = "generate" /\ gen.found) =>
        LET chain == chains[gen.context]
            hit == {i \in 1..Len(chain) : gen.u < Accumulate(chain, i)}
        IN IF SumOf(chain) = 0 THEN gen.ret.kind = "error"
           ELSE /\ hit # {}
                /\ \E i \in hit :
                      /\ \A j \in hit : i <= j
                      /\ chain[i] > 0
                      /\ gen.ret = Symbol(alphabet[i])

\* the number of places in the decorated words where sym follows the window c
RECURSIVE FollowCount(_, _, _, _)
FollowCount(c, sym, words, k) ==
    IF words = <<>> THEN 0
    ELSE LET d == Repeat(Boundary, k) \o Head(words) \o <<Boundary>>
         IN Cardinality({q \in 1..(Len(d) - k) :
                            SubSeq(d, q, q + k - 1) = c /\ d[q + k] = sym})
            + FollowCount(c, sym, Tail(words), k)

\* the windows of length k of the decorated words
WindowsOf(words, k) ==
    UNION {LET d == Repeat(Boundary, k) \o words[i] \o <<Boundary>>
           IN {SubSeq(d, q, q + k - 1) : q \in 1..(Len(d) - k + 1)} : i \in 1..Len(words)}

IsPrefix(s, t) == Len(s) <= Len(t) /\ SubSeq(t, 1, Len(s)) = s

C10_Weights ==
    mstate = "ready" =>
        \A c \in WindowsOf(AllTrained, order) :
            /\ MapHas(chains, c)
            /\ \A i \in 1..Len(alphabet) :
                  chains[c][i] = prior + PriorDen * FollowCount(c, alphabet[i], AllTrained, order)

C10_Kept ==
    mstate = "ready" =>
        /\ alphabet' = alphabet
        /\ \A c \in DOMAIN observations :
              MapHas(observations', c) /\ IsPrefix(observations[c], observations'[c])

\* C10: retraining accumulates. Every window of the words of every batch is a
\* context whose weights are prior + the number of times the symbol follows it
\* over all the batches; no step removes or replaces an observation or changes
\* the alphabet.
C10_RetrainAccumulates == [](C10_Weights) /\ [][C10_Kept]_vars

\* C10's case: after a retrain, a weight that counts a follower once in the
\* first batch and once in the second
C10_Witness ==
    /\ mstate = "ready" /\ lastOp = "retrain" /\ Len(trained) = 2
    /\ \E c \in DOMAIN chains : \E i \in 1..Len(alphabet) :
          /\ chains[c][i] = prior + 2 * PriorDen
          /\ FollowCount(c, alphabet[i], trained[1], order) = 1
          /\ FollowCount(c, alphabet[i], trained[2], order) = 1

ValidPrior(p) == p >= 0 /\ p <= PriorDen

\* C4 (as claimed): from non-empty data and an order N >= 0 (and a prior in
\* [0,1]) construction succeeds; with backoff there are N + 1 models, of orders
\* N, N-1, ..., 0 in that sequence, without backoff one model of order N; each
\* model's observation table is the one training on all the given words builds.
C4_ModelsPerOrder ==
    (gstate # "new" /\ Len(ginput.data) > 0 /\ ginput.order >= 0 /\ ValidPrior(ginput.prior)) =>
        /\ gstate = "built"
        /\ Len(models) = (IF ginput.backoff THEN ginput.order + 1 ELSE 1)
        /\ \A i \in 1..Len(models) :
              /\ models[i].order = ginput.order - (i - 1)
              /\ models[i].observations =
                    Train(EmptyMap, ginput.data, models[i].order).observations

\* C5 (as claimed): the derived alphabet is the boundary symbol followed by
\* exactly the characters of the training words, ascending, each once.
C5_AlphabetOfData ==
    gstate # "new" =>
        /\ Len(domain) >= 1 /\ domain[1] = Boundary
        /\ {domain[i] : i \in 2..Len(domain)} = CharsOf(ginput.data)
        /\ \A i \in 2..Len(domain) : \A j \in 2..Len(domain) :
              i < j => CodeUnit(domain[i]) < CodeUnit(domain[j])

\* C6 (as claimed): no Generator and no Model comes out of a construction with
\* a prior outside [0,1], an empty alphabet, empty data or a negative order.
C6_FailFast ==
    /\ gstate = "built" =>
          /\ ValidPrior(ginput.prior) /\ Len(ginput.data) > 0 /\ ginput.order >= 0
    /\ mstate = "ready" =>
          /\ ValidPrior(prior) /\ Len(alphabet) > 0 /\ Len(AllTrained) > 0 /\ order >= 0

\* C1 (as claimed): whichever generateName is called, it returns null or a
\* string with no boundary symbol in it.
C1_NoBoundaryInName ==
    (gn.def # 0 /\ ~gn.ret.null) =>
        \A i \in 1..Len(gn.ret.name) : gn.ret.name[i] # Boundary

\* the word with its boundary symbols taken out
Cleaned(word) == LET NotBoundary(ch) == ch # Boundary IN SelectSeq(word, NotBoundary)
HasPrefix(w, s) == \E k \in 0..Len(w) : w = s \o SubSeq(w, k + 1, Len(w))
HasSuffix(w, s) == \E k \in 0..Len(w) : w = SubSeq(w, 1, k) \o s
Contains(w, s) ==
    \E i \in 0..Len(w) : \E j \in (i + 1)..(Len(w) + 1) :
        w = SubSeq(w, 1, i) \o s \o SubSeq(w, j, Len(w))
\* the constraints of section 4.3 on a cleaned word
Satisfies(c, w) ==
    /\ c.minLength <= Len(w)
    /\ (c.maxLength.inf \/ Len(w) <= c.maxLength.v)
    /\ HasPrefix(w, c.startsWith) /\ HasSuffix(w, c.endsWith)
    /\ (c.includes = <<>> \/ Contains(w, c.includes))
    /\ (c.excludes = <<>> \/ ~Contains(w, c.excludes))

\* C2: generateName (lines 119-130) takes one word from the generator and
\* returns it with every boundary symbol removed exactly when the cleaned word
\* satisfies all the constraints, and null otherwise; with no constraints it
\* never returns null.
C2_AcceptsIffSatisfied ==
    gn.def = 1 =>
        /\ gn.consumed = 1
        /\ IF Satisfies(gn.c, Cleaned(gn.word))
           THEN gn.ret = Name(Cleaned(gn.word))
           ELSE gn.ret = NullName
        /\ (gn.c = Open => ~gn.ret.null)

\* C2's case: a word with boundary symbols accepted under a prefix and an
\* includes constraint
C2_Witness ==
    /\ gn.def = 1 /\ ~gn.ret.null
    /\ Len(gn.ret.name) < Len(gn.word) /\ Len(gn.ret.name) >= 1
    /\ gn.c.startsWith # <<>> /\ gn.c.includes # <<>>

Deadline == startTime + (call.n * call.maxTimePerName)
Contradictory(c) == c.includes # <<>> /\ c.includes = c.excludes

C3_Collected ==
    pc # "idle" =>
        /\ Len(names) <= call.n
        /\ \A i \in 1..Len(names) :
              /\ Satisfies(call.c, names[i])
              /\ \E w \in GeneratedWords : names[i] = Cleaned(w)
        /\ (Contradictory(call.c) => names = <<>>)

C3_PassOnlyInBudget ==
    (pc = "loop" /\ (names' # names \/ currentTime' # currentTime)) =>
        /\ Len(names) < call.n /\ currentTime < Deadline
        /\ (names' = names \/ \E w \in GeneratedWords : names' = Append(names, Cleaned(w)))
        /\ currentTime' >= currentTime

====
